---- MODULE Spec2Model ----
(***************************************************************************)
(* Account management views of the Q&A-site clone                          *)
(* (stackoverflow_clone/users/views.py).                                   *)
(*                                                                         *)
(* The state is the User table, the Profile table, the number of salts the *)
(* password hasher has drawn, the queue of e-mail tasks, the signed tokens *)
(* that have been mailed out, the avatar bucket, the refresh-token         *)
(* blacklist, the clock, the requests in flight and the last request       *)
(* served with its response.                                               *)
(*                                                                         *)
(* views.py opens no transaction, so every database access of a view is    *)
(* committed by itself.  A view that makes more than one access is         *)
(* therefore one action per access: the action named after the view is the *)
(* request up to and including its first read (it holds what it has read), *)
(* and one further action per later read, save(), delete(), hand-over of a *)
(* task or storage call.  Requests of other workers can come between any   *)
(* two of them.                                                            *)
(***************************************************************************)
EXTENDS Integers, FiniteSets, Sequences, TLC

\* ---------------------------------------------------------------- bounds
MaxUsers == 2        \* rows ever inserted in the User table
MaxTime == 1         \* clock ticks
MaxMails == 2        \* e-mail tasks ever enqueued
MaxJti == 2          \* distinct refresh tokens in circulation
TokenLifetime == 1   \* ticks a mailed token stays valid
RefreshLifetime == 1 \* ticks a refresh token stays valid

UserIds == 1..MaxUsers
Jtis == 1..MaxJti
Usernames == {"alice", "bob"}
Emails == {"a@x.com", "b@x.com"}
Passwords == {"Secret123!", "Other456!"}
Purposes == {"verification", "reset_password"}
\* The workers of the server, each serving one request at a time.
Procs == {"r1", "r2"}
Absent == "absent"
Anonymous == 0
NoToken == [kind |-> "none"]
NoPayload == [kind |-> "none"]
Idle == [pc |-> "idle"]

VARIABLES users, profiles, salts, lastid, queue, mailed, bucket, blacklisted,
          now, inflight, resp

vars == <<users, profiles, salts, lastid, queue, mailed, bucket, blacklisted,
          now, inflight, resp>>

\* ------------------------------------------------------------ HTTP status
HTTP_200_OK == 200
HTTP_201_CREATED == 201
HTTP_202_ACCEPTED == 202
HTTP_204_NO_CONTENT == 204
HTTP_400_BAD_REQUEST == 400
HTTP_401_UNAUTHORIZED == 401
HTTP_403_FORBIDDEN == 403
HTTP_404_NOT_FOUND == 404
HTTP_409_CONFLICT == 409
\* What the framework answers when a view raises.
HTTP_500_INTERNAL_SERVER_ERROR == 500

\* The last step of a request and the status of the Response it returned
\* (0 while the request has not answered yet): the view, the user id it
\* named, and the token and the validated data when the view got as far as
\* using them (NoToken, NoPayload otherwise).
Response(op, status, tok, uid, pay) ==
    [op |-> op, status |-> status, tok |-> tok, uid |-> uid, pay |-> pay]

\* Response(data={'message': ...}, status=...) and
\* Response(data={'errors': serializer.errors}, status=...)
MessageResponse(status) ==
    [type |-> "Response", status |-> status, data |-> "message"]

ErrorsResponse(status) ==
    [type |-> "Response", status |-> status, data |-> "errors"]

\* The framework's answer to a request its permission class refuses.
PermissionDenied ==
    [type |-> "Response", status |-> HTTP_403_FORBIDDEN, data |-> "detail"]

\* ------------------------------------------------------------- User table
Existing == DOMAIN users

\* request.user is an authenticated identity: an active user, or nobody.
Callers == {u \in Existing : users[u].is_active} \cup {Anonymous}

\* permissions.NotAuthenticated: only a caller without an identity passes.
NotAuthenticated(caller) == caller = Anonymous

\* get_random_string() of the password hasher: a salt drawn at random, so
\* one that was never drawn before (the salts are numbered as drawn).
get_random_string == salts

\* user.set_password(raw): the stored value is a hash of the raw password
\* under a fresh salt, so it differs from every value stored before, also
\* when the raw password is the same.
make_password(raw) == <<"pbkdf2_sha256", get_random_string, raw>>

\* User.objects.filter(email=...) / filter(username=...), excluding one row.
EmailTaken(email, except) ==
    \E u \in Existing \ {except} : users[u].email = email

UsernameTaken(username, except) ==
    \E u \in Existing \ {except} : users[u].username = username

\* User.objects.get(email=...): the id of the row, or Anonymous when
\* User.DoesNotExist is raised.
UserByEmail(email) ==
    IF \E u \in Existing : users[u].email = email
    THEN CHOOSE u \in Existing : users[u].email = email
    ELSE Anonymous

\* The Profile row a User row is created with: no avatar.
NewProfile == [avatar |-> FALSE]

\* services.register: inserts one row, inactive, under the next id of the
\* table's sequence (ids are never reused).
register(username, email, password) ==
    LET id == lastid + 1
    IN  [id |-> id,
         users |-> [u \in Existing \cup {id} |->
                      IF u = id
                      THEN [username |-> username, email |-> email,
                            password |-> make_password(password),
                            is_active |-> FALSE]
                      ELSE users[u]]]

\* instance.save(): every column of the User row is written from the
\* instance under its primary key, whatever the row holds by now (UPDATE;
\* INSERT when no row has that key any more).  The Profile row is not
\* touched.
save(id, row) ==
    [u \in Existing \cup {id} |-> IF u = id THEN row ELSE users[u]]

\* The Profile table after a save() of the User row id: as it was, with a
\* new Profile when the save inserted the row.
saved_profiles(id) ==
    [u \in DOMAIN profiles \cup {id} |->
       IF u \in DOMAIN profiles THEN profiles[u] ELSE NewProfile]

\* The database refuses the row a save() writes: its e-mail or username
\* belongs to another row.
IntegrityError(id, row) ==
    \/ EmailTaken(row.email, id)
    \/ UsernameTaken(row.username, id)

\* ---------------------------------------------------------- mailed tokens
\* send_verification_email.delay_on_commit(email, user_id, purpose, subject)
EmailTask(email, user_id, purpose) ==
    [email |-> email, user_id |-> user_id, purpose |-> purpose]

\* The token the e-mail task signs for its link: user id, purpose tag and
\* expiry.
generate_token(user_id, purpose) ==
    [kind |-> "jwt", uid |-> user_id, purpose |-> purpose,
     exp |-> now + TokenLifetime, sig |-> TRUE]

Malformed == [kind |-> "garbage", uid |-> Anonymous, purpose |-> "verification",
              exp |-> 0, sig |-> FALSE]

\* What a client can put in the URL: a token it was mailed, such a token
\* with its user id or expiry rewritten (the signature no longer matches),
\* or a string that is no token at all.
Tampered ==
    {[t EXCEPT !.sig = FALSE, !.uid = u] : t \in mailed, u \in Existing}
    \cup {[t EXCEPT !.sig = FALSE, !.exp = t.exp + 1] : t \in mailed}

UrlTokens == mailed \cup Tampered \cup {Malformed}

\* JWT_token.get_user(token): the User the token names, or a Response.
FailureResponse == [type |-> "Response", status |-> HTTP_400_BAD_REQUEST]

get_user(token) ==
    IF token.kind # "jwt" \/ ~token.sig THEN FailureResponse
    ELSE IF token.exp <= now THEN FailureResponse
    ELSE IF token.uid \notin Existing THEN FailureResponse
    ELSE [type |-> "User", id |-> token.uid]

\* isinstance(token_result, User)
isinstance_User(token_result) == token_result.type = "User"

\* The requests in flight that are about to hand a task over.
Senders ==
    {p \in Procs : inflight[p].pc \in {"register", "register_email", "user_save",
                                       "patch_email", "resend_email",
                                       "reset_email"}}

\* Room left for one more e-mail task, counting the tasks that requests in
\* flight are about to hand over.
MailRoom == Len(queue) + Cardinality(mailed) + Cardinality(Senders) < MaxMails

\* The outcome of a view run on the rows as they are now: the User table
\* as the view's writes would leave it, the e-mail tasks it hands to
\* delay_on_commit and the status of its Response.
Outcome(table, tasks, status) ==
    [users |-> table, tasks |-> tasks, status |-> status]

\* instance.save() of the request worker p has in flight, and the Response
\* after it; the view raises when the database refuses the row.
WriteBack(p, view, row, status, pay) ==
    LET r == inflight[p]
    IN  /\ IF IntegrityError(r.id, row)
           THEN /\ users' = users
                /\ profiles' = profiles
                /\ resp' = Response(view, HTTP_500_INTERNAL_SERVER_ERROR,
                                    r.tok, r.id, pay)
           ELSE /\ users' = save(r.id, row)
                /\ profiles' = saved_profiles(r.id)
                /\ resp' = Response(view, status, r.tok, r.id, pay)
        /\ inflight' = [inflight EXCEPT ![p] = Idle]

\* A request refused by its permission class before the view runs.
Forbidden(view) ==
    /\ resp' = Response(view, HTTP_403_FORBIDDEN, NoToken, Anonymous,
                        PermissionDenied)
    /\ UNCHANGED <<users, profiles, salts, lastid, queue, mailed, bucket,
                   blacklisted, now, inflight>>

\* ------------------------------------------------------ UserRegisterAPI
\* UserRegisterSerializer.is_valid(): field formats, and username and
\* e-mail not yet in the table.
RegisterPayloads ==
    [username : Usernames, email : Emails, password : {"Secret123!"},
     wellformed : {TRUE}]
    \cup {[username |-> "alice", email |-> "not-an-email",
           password |-> "Secret123!", wellformed |-> FALSE]}

UserRegisterSerializer_is_valid(data) ==
    /\ data.wellformed
    /\ ~UsernameTaken(data.username, Anonymous)
    /\ ~EmailTaken(data.email, Anonymous)

\* The registrations that have passed is_valid() and not yet inserted.
Registering == {p \in Procs : inflight[p].pc = "register"}

\* The hasher has a salt left to draw, counting the ones the registrations
\* in flight are about to draw: one for every account and one more for a
\* change of password.
SaltRoom == salts + Cardinality(Registering) < MaxUsers + 1

\* post() up to serializer.is_valid(), which reads the table; a valid
\* request holds its validated data.
Register(p, caller, data) ==
    /\ inflight[p] = Idle
    /\ IF ~NotAuthenticated(caller)
       THEN Forbidden("register")
       ELSE /\ UserRegisterSerializer_is_valid(data)
                 => /\ lastid + Cardinality(Registering) < MaxUsers
                    /\ SaltRoom
                    /\ MailRoom
            /\ IF UserRegisterSerializer_is_valid(data)
               THEN /\ inflight' = [inflight EXCEPT ![p] =
                          [pc |-> "register", vd |-> data]]
                    /\ resp' = Response("register", 0, NoToken, Anonymous, data)
               ELSE /\ inflight' = inflight
                    /\ resp' = Response("register", HTTP_400_BAD_REQUEST, NoToken,
                                        Anonymous, ErrorsResponse(HTTP_400_BAD_REQUEST))
            /\ UNCHANGED <<users, profiles, salts, lastid, queue, mailed, bucket,
                           blacklisted, now>>

\* register(), which hashes the password and INSERTs the row (with its
\* Profile).  The view raises out of register() when the username or
\* e-mail has been taken since is_valid().
RegisterInsert(p) ==
    /\ inflight[p].pc = "register"
    /\ LET vd == inflight[p].vd
           user == register(vd.username, vd.email, vd.password)
       IN  IF UsernameTaken(vd.username, Anonymous) \/ EmailTaken(vd.email, Anonymous)
           THEN /\ resp' = Response("register", HTTP_500_INTERNAL_SERVER_ERROR,
                                    NoToken, Anonymous, vd)
                /\ inflight' = [inflight EXCEPT ![p] = Idle]
                /\ UNCHANGED <<users, profiles, lastid>>
           ELSE /\ users' = user.users
                /\ profiles' = [u \in DOMAIN profiles \cup {user.id} |->
                                  IF u = user.id THEN NewProfile ELSE profiles[u]]
                /\ lastid' = user.id
                /\ inflight' = [inflight EXCEPT ![p] =
                      [pc |-> "register_email", vd |-> vd, id |-> user.id]]
                /\ resp' = Response("register", 0, NoToken, user.id, vd)
    /\ salts' = salts + 1
    /\ UNCHANGED <<queue, mailed, bucket, blacklisted, now>>

\* send_verification_email.delay_on_commit(vd['email'], user.id, ...), which
\* hands the task over at once as no transaction is open, and the Response.
RegisterEmail(p) ==
    /\ inflight[p].pc = "register_email"
    /\ LET r == inflight[p]
       IN  /\ queue' = Append(queue, EmailTask(r.vd.email, r.id, "verification"))
           /\ resp' = Response("register", HTTP_201_CREATED, NoToken, r.id, r.vd)
    /\ inflight' = [inflight EXCEPT ![p] = Idle]
    /\ UNCHANGED <<users, profiles, salts, lastid, mailed, bucket, blacklisted,
                   now>>
\* ------------------------------------------------ UserRegisterVerifyAPI
\* The view without its isinstance() test: the user the token's payload
\* names is activated whatever the verifier said.
UserRegisterVerifyAPI_get_unchecked(token) ==
    IF token.uid \notin Existing
    THEN Outcome(users, <<>>, HTTP_400_BAD_REQUEST)
    ELSE IF users[token.uid].is_active
    THEN Outcome(users, <<>>, HTTP_409_CONFLICT)
    ELSE Outcome([users EXCEPT ![token.uid].is_active = TRUE], <<>>, HTTP_200_OK)

UserRegisterVerifyAPI_get(token) ==
    LET token_result == get_user(token)
    IN  IF ~isinstance_User(token_result)
        THEN Outcome(users, <<>>, token_result.status)
        ELSE IF users[token_result.id].is_active
        THEN Outcome(users, <<>>, HTTP_409_CONFLICT)
        ELSE Outcome([users EXCEPT ![token_result.id].is_active = TRUE],
                     <<>>, HTTP_200_OK)

\* get() up to token_result.is_active = True: get_user() has read the row;
\* a request that is going to save holds the instance with the flag set.
Verify(p, caller, token) ==
    /\ inflight[p] = Idle
    /\ IF ~NotAuthenticated(caller)
       THEN Forbidden("verify")
       ELSE /\ LET r == UserRegisterVerifyAPI_get(token)
                   tok == IF isinstance_User(get_user(token)) THEN token ELSE NoToken
               IN  IF r.status = HTTP_200_OK
                   THEN /\ inflight' = [inflight EXCEPT ![p] =
                                          [pc |-> "verify_save", id |-> token.uid,
                                           user |-> r.users[token.uid], tok |-> tok]]
                        /\ resp' = Response("verify", 0, tok, token.uid, NoPayload)
                   ELSE /\ inflight' = inflight
                        /\ resp' = Response("verify", r.status, tok, token.uid,
                                            NoPayload)
            /\ UNCHANGED <<users, profiles, salts, lastid, queue, mailed, bucket,
                           blacklisted, now>>

\* token_result.save() and the Response.
VerifySave(p) ==
    /\ inflight[p].pc = "verify_save"
    /\ WriteBack(p, "verify", inflight[p].user, HTTP_200_OK, NoPayload)
    /\ UNCHANGED <<salts, lastid, queue, mailed, bucket, blacklisted, now>>

\* --------------------------------------------------------- e-mail hand-over
\* send_verification_email.delay_on_commit(...) of a view that has read a
\* user and writes nothing, and the 202: with no transaction open the task
\* is handed over at once, for the address and id of the instance read.
HandOver(p, view) ==
    /\ queue' = queue \o inflight[p].tasks
    /\ resp' = Response(view, HTTP_202_ACCEPTED, NoToken, inflight[p].id,
                        inflight[p].data)
    /\ inflight' = [inflight EXCEPT ![p] = Idle]
    /\ UNCHANGED <<users, profiles, salts, lastid, mailed, bucket, blacklisted, now>>

\* -------------------------------------------- ResendVerificationEmailAPI
\* ResendVerificationEmailSerializer.is_valid(): resolves the e-mail to an
\* existing user, which it puts in validated_data['user'].
EmailPayloads ==
    [email : Emails, wellformed : {TRUE}]
    \cup {[email |-> "not-an-email", wellformed |-> FALSE]}

ResendVerificationEmailSerializer_is_valid(data) ==
    data.wellformed /\ UserByEmail(data.email) # Anonymous

ResendVerificationEmailAPI_post(data) ==
    IF ResendVerificationEmailSerializer_is_valid(data)
    THEN LET user == UserByEmail(data.email)
         IN  Outcome(users,
                     <<EmailTask(users[user].email, user, "verification")>>,
                     HTTP_202_ACCEPTED)
    ELSE Outcome(users, <<>>, HTTP_400_BAD_REQUEST)

\* post() up to srz_data.is_valid(), which reads the user; a valid request
\* holds the task for the user it has read.
ResendVerification(p, caller, data) ==
    /\ inflight[p] = Idle
    /\ IF ~NotAuthenticated(caller)
       THEN Forbidden("resend")
       ELSE /\ ResendVerificationEmailSerializer_is_valid(data) => MailRoom
            /\ LET r == ResendVerificationEmailAPI_post(data)
               IN  IF r.status = HTTP_202_ACCEPTED
                   THEN /\ inflight' = [inflight EXCEPT ![p] =
                              [pc |-> "resend_email",
                               id |-> UserByEmail(data.email), data |-> data,
                               tasks |-> r.tasks]]
                        /\ resp' = Response("resend", 0, NoToken,
                                            UserByEmail(data.email), data)
                   ELSE /\ inflight' = inflight
                        /\ resp' = Response("resend", r.status, NoToken,
                                            UserByEmail(data.email), NoPayload)
            /\ UNCHANGED <<users, profiles, salts, lastid, queue, mailed, bucket,
                           blacklisted, now>>

\* delay_on_commit for validated_data['user'] and the 202.
ResendEmail(p) ==
    /\ inflight[p].pc = "resend_email"
    /\ HandOver(p, "resend")

\* ----------------------------------------------------- ChangePasswordAPI
PasswordPayloads ==
    [new_password : Passwords, wellformed : {TRUE}]
    \cup {[new_password |-> "", wellformed |-> FALSE]}

\* permission_classes = [IsAuthenticated], then put().
ChangePasswordAPI_put(caller, data) ==
    IF caller = Anonymous
    THEN Outcome(users, <<>>, HTTP_401_UNAUTHORIZED)
    ELSE IF data.wellformed
    THEN Outcome([users EXCEPT ![caller].password = make_password(data.new_password)],
                 <<>>, HTTP_200_OK)
    ELSE Outcome(users, <<>>, HTTP_400_BAD_REQUEST)

\* Authentication has read request.user; put() up to
\* user.set_password(new_password), which draws the salt.
ChangePassword(p, caller, data) ==
    /\ inflight[p] = Idle
    /\ LET r == ChangePasswordAPI_put(caller, data)
       IN  /\ r.status = HTTP_200_OK => SaltRoom
           /\ IF r.status = HTTP_200_OK
              THEN /\ inflight' = [inflight EXCEPT ![p] =
                                     [pc |-> "change_password_save", id |-> caller,
                                      user |-> r.users[caller], tok |-> NoToken,
                                      data |-> data]]
                   /\ salts' = salts + 1
                   /\ resp' = Response("change_password", 0, NoToken, caller, data)
              ELSE /\ inflight' = inflight
                   /\ salts' = salts
                   /\ resp' = Response("change_password", r.status, NoToken, caller,
                                       NoPayload)
    /\ UNCHANGED <<users, profiles, lastid, queue, mailed, bucket, blacklisted, now>>

\* user.save() and the Response.
ChangePasswordSave(p) ==
    /\ inflight[p].pc = "change_password_save"
    /\ WriteBack(p, "change_password", inflight[p].user, HTTP_200_OK,
                 inflight[p].data)
    /\ UNCHANGED <<salts, lastid, queue, mailed, bucket, blacklisted, now>>

\* -------------------------------------------------------- SetPasswordAPI
\* The outcome of a view that saves no e-mail task, with the Response it
\* returns.
Answer(table, response) ==
    [users |-> table, tasks |-> <<>>, status |-> response.status,
     response |-> response]

\* post() with the serializer consulted before the token.
SetPasswordAPI_post_payload_first(token, data) ==
    LET token_result == get_user(token)
    IN  IF ~data.wellformed
        THEN Answer(users, ErrorsResponse(HTTP_400_BAD_REQUEST))
        ELSE IF ~isinstance_User(token_result)
        THEN Answer(users, token_result)
        ELSE Answer([users EXCEPT ![token_result.id].password =
                                     make_password(data.new_password)],
                    MessageResponse(HTTP_200_OK))

SetPasswordAPI_post(token, data) ==
    LET token_result == get_user(token)
    IN  IF ~isinstance_User(token_result)
        THEN Answer(users, token_result)
        ELSE IF data.wellformed
        THEN Answer([users EXCEPT ![token_result.id].password =
                                     make_password(data.new_password)],
                    MessageResponse(HTTP_200_OK))
        ELSE Answer(users, ErrorsResponse(HTTP_400_BAD_REQUEST))

\* post() up to token_result.set_password(new_password), which draws the
\* salt: get_user() has read the row.  A request that is refused is
\* recorded with the Response it was refused with.
SetPassword(p, token, data) ==
    /\ inflight[p] = Idle
    /\ LET r == SetPasswordAPI_post(token, data)
           tok == IF isinstance_User(get_user(token)) THEN token ELSE NoToken
       IN  /\ r.status = HTTP_200_OK => SaltRoom
           /\ IF r.status = HTTP_200_OK
              THEN /\ inflight' = [inflight EXCEPT ![p] =
                                     [pc |-> "set_password_save", id |-> token.uid,
                                      user |-> r.users[token.uid], tok |-> tok,
                                      data |-> data]]
                   /\ salts' = salts + 1
                   /\ resp' = Response("set_password", 0, tok, token.uid, data)
              ELSE /\ inflight' = inflight
                   /\ salts' = salts
                   /\ resp' = Response("set_password", r.status, tok, token.uid,
                                       r.response)
    /\ UNCHANGED <<users, profiles, lastid, queue, mailed, bucket, blacklisted, now>>

\* token_result.save() and the Response.
SetPasswordSave(p) ==
    /\ inflight[p].pc = "set_password_save"
    /\ WriteBack(p, "set_password", inflight[p].user, HTTP_200_OK,
                 inflight[p].data)
    /\ UNCHANGED <<salts, lastid, queue, mailed, bucket, blacklisted, now>>

\* ------------------------------------------------------ ResetPasswordAPI
\* post() answering 202 for an unknown address as well, without a mail.
ResetPasswordAPI_post_no_disclosure(data) ==
    IF data.wellformed
    THEN LET user == UserByEmail(data.email)
         IN  IF user = Anonymous
             THEN Outcome(users, <<>>, HTTP_202_ACCEPTED)
             ELSE Outcome(users,
                          <<EmailTask(users[user].email, user, "reset_password")>>,
                          HTTP_202_ACCEPTED)
    ELSE Outcome(users, <<>>, HTTP_400_BAD_REQUEST)

ResetPasswordAPI_post(data) ==
    IF data.wellformed
    THEN LET user == UserByEmail(data.email)
         IN  IF user = Anonymous
             THEN Outcome(users, <<>>, HTTP_404_NOT_FOUND)
             ELSE Outcome(users,
                          <<EmailTask(users[user].email, user, "reset_password")>>,
                          HTTP_202_ACCEPTED)
    ELSE Outcome(users, <<>>, HTTP_400_BAD_REQUEST)

\* post() up to User.objects.get(email=...); a request that has found the
\* user holds the task for the user it has read.
ResetPassword(p, data) ==
    /\ inflight[p] = Idle
    /\ LET r == ResetPasswordAPI_post(data)
       IN  /\ r.tasks # <<>> => MailRoom
           /\ IF r.tasks # <<>>
              THEN /\ inflight' = [inflight EXCEPT ![p] =
                         [pc |-> "reset_email",
                          id |-> UserByEmail(data.email), data |-> data,
                          tasks |-> r.tasks]]
                   /\ resp' = Response("reset_password", 0, NoToken,
                                       UserByEmail(data.email), data)
              ELSE /\ inflight' = inflight
                   /\ resp' = Response("reset_password", r.status, NoToken,
                                       UserByEmail(data.email),
                                       IF data.wellformed THEN data ELSE NoPayload)
    /\ UNCHANGED <<users, profiles, salts, lastid, queue, mailed, bucket,
                   blacklisted, now>>

\* delay_on_commit for the user found and the 202.
ResetEmail(p) ==
    /\ inflight[p].pc = "reset_email"
    /\ HandOver(p, "reset_password")

\* --------------------------------------------------------- BlockTokenAPI
\* The refresh tokens handed out at time 0, one per jti, and the same with a
\* signature that does not match.
RefreshInputs ==
    [kind : {"refresh"}, jti : Jtis, exp : {RefreshLifetime}, sig : BOOLEAN]

BlockPayloads == [refresh : RefreshInputs \cup {NoToken}]

\* TokenSerializer.is_valid(): the refresh field is present.
TokenSerializer_is_valid(data) == data.refresh # NoToken

\* RefreshToken(raw) raises TokenError: bad signature, expired, or (the
\* blacklist app's check_blacklist) a BlacklistedToken row for its jti.
TokenError(token) ==
    \/ ~token.sig
    \/ token.exp <= now
    \/ blacklisted[token.jti] > 0

\* token.blacklist(): BlacklistedToken.objects.get_or_create(token=...),
\* one row at most per token.
blacklist(jti) ==
    IF blacklisted[jti] = 0
    THEN [blacklisted EXCEPT ![jti] = 1]
    ELSE blacklisted

\* post() without its except clause taking effect: a token that raised
\* TokenError goes on to blacklist().
BlockTokenAPI_post_load_no_except(p, data) ==
    IF ~TokenSerializer_is_valid(data)
    THEN [inflight |-> inflight, status |-> HTTP_400_BAD_REQUEST]
    ELSE [inflight |-> [inflight EXCEPT ![p] = [pc |-> "blacklist",
                                                 token |-> data.refresh]],
          status |-> 0]

\* post(), up to and including RefreshToken(request.data['refresh']).
BlockTokenAPI_post_load(p, data) ==
    IF ~TokenSerializer_is_valid(data)
    THEN [inflight |-> inflight, status |-> HTTP_400_BAD_REQUEST]
    ELSE IF TokenError(data.refresh)
    THEN [inflight |-> inflight, status |-> HTTP_400_BAD_REQUEST]
    ELSE [inflight |-> [inflight EXCEPT ![p] = [pc |-> "blacklist",
                                                 token |-> data.refresh]],
          status |-> 0]

BlockLoad(p, data) ==
    /\ inflight[p] = Idle
    /\ LET r == BlockTokenAPI_post_load(p, data)
       IN  /\ inflight' = r.inflight
           /\ resp' = Response("block_token", r.status, data.refresh, Anonymous, p)
    /\ UNCHANGED <<users, profiles, salts, lastid, queue, mailed, bucket,
                   blacklisted, now>>

\* post(), from token.blacklist() to its Response.
BlockBlacklist(p) ==
    /\ inflight[p].pc = "blacklist"
    /\ blacklisted' = blacklist(inflight[p].token.jti)
    /\ inflight' = [inflight EXCEPT ![p] = Idle]
    /\ resp' = Response("block_token", HTTP_204_NO_CONTENT, inflight[p].token,
                        Anonymous, p)
    /\ UNCHANGED <<users, profiles, salts, lastid, queue, mailed, bucket, now>>

\* -------------------------------------------------------- UserProfileAPI
ProfilePayloads ==
    [email : Emails \cup {Absent}, username : {"bob", Absent},
     avatar : {Absent}, wellformed : {TRUE}]
    \cup {[email |-> "not-an-email", username |-> Absent, avatar |-> Absent,
           wellformed |-> FALSE]}

\* The payloads that leave the username alone.
EmailPatches == {d \in ProfilePayloads : d.username = Absent}

\* A payload that uploads an avatar and touches nothing else.
AvatarPayloads ==
    {[email |-> Absent, username |-> Absent, avatar |-> "avatar.png",
      wellformed |-> TRUE]}

\* UserSerializer(instance=user, data=..., partial=True).is_valid()
UserSerializer_is_valid(id, data) ==
    /\ data.wellformed
    /\ data.email # Absent => ~EmailTaken(data.email, id)
    /\ data.username # Absent => ~UsernameTaken(data.username, id)

\* serializer.save(): the supplied fields set on the instance, which is
\* then saved whole.
serializer_save(row, data) ==
    [row EXCEPT
       !.email = IF data.email = Absent THEN @ ELSE data.email,
       !.username = IF data.username = Absent THEN @ ELSE data.username]

\* queryset = User.objects.filter(is_active=True)
queryset == {u \in Existing : users[u].is_active}

\* get_object() of a PATCH or DELETE: the queryset looked up by id, then
\* IsOwnerOrReadOnly on the object; the refusal is 401 for a caller who
\* carries no credentials and 403 for one who is somebody else.
get_object(caller, id) ==
    IF id \notin queryset THEN HTTP_404_NOT_FOUND
    ELSE IF caller = id THEN HTTP_200_OK
    ELSE IF caller = Anonymous THEN HTTP_401_UNAUTHORIZED
    ELSE HTTP_403_FORBIDDEN

\* GET (the generic view's retrieve()): get_object(), which any caller is
\* permitted for a read.
UserProfileAPI_retrieve(caller, id) ==
    IF id \notin queryset
    THEN Outcome(users, <<>>, HTTP_404_NOT_FOUND)
    ELSE Outcome(users, <<>>, HTTP_200_OK)

\* The view reads once and writes nothing.
Retrieve(caller, id) ==
    /\ LET r == UserProfileAPI_retrieve(caller, id)
       IN  /\ users' = r.users
           /\ resp' = Response("retrieve", r.status, NoToken, id, NoPayload)
    /\ UNCHANGED <<profiles, salts, lastid, queue, mailed, bucket, blacklisted,
                   now, inflight>>

\* What is recorded of a PATCH that got as far as its validated data: the
\* data, and the e-mail on the instance the request read.
Patched(data, user) ==
    [email |-> data.email, username |-> data.username, avatar |-> data.avatar,
     wellformed |-> data.wellformed, stored |-> user.email]

\* patch() from email_changed to the hand-over (lines 223-229), with the
\* deactivation skipped when the payload carries other fields besides the
\* e-mail.
UserProfileAPI_patch_keeps_active(id, user, data) ==
    LET email_changed == data.email # Absent
    IN  [user |-> IF email_changed /\ data.username = Absent
                  THEN [user EXCEPT !.is_active = FALSE]
                  ELSE user,
         save |-> email_changed,
         tasks |-> IF email_changed
                   THEN <<EmailTask(data.email, id, "verification")>>
                   ELSE <<>>]

\* The same, deactivating only when the supplied e-mail is a new one.
UserProfileAPI_patch_only_when_differs(id, user, data) ==
    LET email_changed == data.email # Absent /\ data.email # user.email
    IN  [user |-> IF email_changed
                  THEN [user EXCEPT !.is_active = FALSE]
                  ELSE user,
         save |-> email_changed,
         tasks |-> IF email_changed
                   THEN <<EmailTask(data.email, id, "verification")>>
                   ELSE <<>>]

\* patch() from email_changed to the hand-over (lines 223-229), on the
\* instance get_object() returned and the validated data: the instance as
\* the view leaves it in memory, whether user.save() is called, and the
\* tasks delay_on_commit is called with.
UserProfileAPI_patch(id, user, data) ==
    LET email_changed == data.email # Absent
    IN  [user |-> IF email_changed
                  THEN [user EXCEPT !.is_active = FALSE]
                  ELSE user,
         save |-> email_changed,
         tasks |-> IF email_changed
                   THEN <<EmailTask(data.email, id, "verification")>>
                   ELSE <<>>]

\* A step of a PATCH that ends the request before anything is written.
PatchRefused(p, status) ==
    /\ inflight' = [inflight EXCEPT ![p] = Idle]
    /\ resp' = Response("patch", status, NoToken, inflight[p].id, NoPayload)

\* The request arrives and is authenticated: request.user is the caller.
Patch(p, caller, id, data) ==
    /\ inflight[p] = Idle
    /\ inflight' = [inflight EXCEPT ![p] =
          [pc |-> "patch_get_object", caller |-> caller, id |-> id,
           data |-> data]]
    /\ resp' = Response("patch", 0, NoToken, id, NoPayload)
    /\ UNCHANGED <<users, profiles, salts, lastid, queue, mailed, bucket,
                   blacklisted, now>>

\* user = self.get_object(): the row is read, and the object permission
\* checked on it.
PatchGetObject(p) ==
    /\ inflight[p].pc = "patch_get_object"
    /\ LET r == inflight[p]
           status == get_object(r.caller, r.id)
       IN  IF status = HTTP_200_OK
           THEN /\ inflight' = [inflight EXCEPT ![p] =
                      [pc |-> "is_valid", id |-> r.id, data |-> r.data,
                       user |-> users[r.id]]]
                /\ resp' = Response("patch", 0, NoToken, r.id, NoPayload)
           ELSE PatchRefused(p, status)
    /\ UNCHANGED <<users, profiles, salts, lastid, queue, mailed, bucket,
                   blacklisted, now>>

\* serializer.is_valid(), which looks the new e-mail and username up, and
\* the view up to user.is_active = False.  The request holds the instance
\* (deactivated when the payload has an e-mail), the validated data and
\* the tasks it has handed over, none so far.
PatchValidate(p) ==
    /\ inflight[p].pc = "is_valid"
    /\ LET r == inflight[p]
           v == UserProfileAPI_patch(r.id, r.user, r.data)
       IN  IF UserSerializer_is_valid(r.id, r.data)
           THEN /\ v.tasks # <<>> => MailRoom
                /\ inflight' = [inflight EXCEPT ![p] =
                      [pc |-> IF v.save THEN "user_save" ELSE "serializer_save",
                       id |-> r.id, data |-> r.data, tok |-> NoToken,
                       user |-> v.user, todo |-> v.tasks, tasks |-> <<>>]]
                /\ resp' = Response("patch", 0, NoToken, r.id,
                                    Patched(r.data, r.user))
           ELSE PatchRefused(p, HTTP_400_BAD_REQUEST)
    /\ UNCHANGED <<users, profiles, salts, lastid, queue, mailed, bucket,
                   blacklisted, now>>

\* user.save() of the instance.  When the database refuses the row the
\* view raises before the task is handed over.
PatchUserSave(p) ==
    /\ inflight[p].pc = "user_save"
    /\ LET r == inflight[p]
       IN  IF IntegrityError(r.id, r.user)
           THEN /\ users' = users
                /\ profiles' = profiles
                /\ inflight' = [inflight EXCEPT ![p] = Idle]
                /\ resp' = Response("patch", HTTP_500_INTERNAL_SERVER_ERROR,
                                    NoToken, r.id, Patched(r.data, r.user))
           ELSE /\ users' = save(r.id, r.user)
                /\ profiles' = saved_profiles(r.id)
                /\ inflight' = [inflight EXCEPT ![p].pc = "patch_email"]
                /\ resp' = Response("patch", 0, NoToken, r.id,
                                    Patched(r.data, r.user))
    /\ UNCHANGED <<salts, lastid, queue, mailed, bucket, blacklisted, now>>

\* send_verification_email.delay_on_commit(validated_data['email'],
\* user.id, ...), which hands the task over at once as no transaction is
\* open.
PatchEmail(p) ==
    /\ inflight[p].pc = "patch_email"
    /\ LET r == inflight[p]
       IN  /\ queue' = queue \o r.todo
           /\ inflight' = [inflight EXCEPT ![p].pc = "serializer_save",
                                           ![p].tasks = r.todo,
                                           ![p].todo = <<>>]
           /\ resp' = Response("patch", 0, NoToken, r.id, Patched(r.data, r.user))
    /\ UNCHANGED <<users, profiles, salts, lastid, mailed, bucket, blacklisted,
                   now>>

\* serializer.save() and the Response: the instance read at the start of
\* the request, with the supplied fields set, is written whole; an
\* uploaded avatar is stored in the bucket and set on the Profile.
PatchSave(p) ==
    /\ inflight[p].pc = "serializer_save"
    /\ LET r == inflight[p]
           row == serializer_save(r.user, r.data)
           upload == ~IntegrityError(r.id, row) /\ r.data.avatar # Absent
       IN  /\ IF IntegrityError(r.id, row)
              THEN /\ users' = users
                   /\ profiles' = profiles
                   /\ resp' = Response("patch", HTTP_500_INTERNAL_SERVER_ERROR,
                                       NoToken, r.id, Patched(r.data, r.user))
              ELSE /\ users' = save(r.id, row)
                   /\ profiles' = IF upload
                                  THEN [saved_profiles(r.id) EXCEPT
                                          ![r.id].avatar = TRUE]
                                  ELSE saved_profiles(r.id)
                   /\ resp' = Response("patch", HTTP_200_OK, NoToken, r.id,
                                       Patched(r.data, r.user))
           /\ bucket' = IF upload THEN bucket \cup {r.id} ELSE bucket
           /\ inflight' = [inflight EXCEPT ![p] = Idle]
    /\ UNCHANGED <<salts, lastid, queue, mailed, blacklisted, now>>

\* The calls destroy() makes on its collaborators, in the order it makes
\* them.
DeleteObjectCall(key) == [call |-> "delete_object", key |-> key]
DeleteRowCall(id) == [call |-> "delete", key |-> id]

\* A step of a DELETE that ends the request without deleting: get_object()
\* refused, or the view raised.
Refused(p, status) ==
    /\ inflight' = [inflight EXCEPT ![p] = Idle]
    /\ resp' = Response("delete", status, NoToken, inflight[p].id,
                        [calls |-> inflight[p].calls])

\* A step of a DELETE that goes on to the access pc.
Proceed(p, pc, calls) ==
    /\ inflight' = [inflight EXCEPT ![p].pc = pc, ![p].calls = calls]
    /\ resp' = Response("delete", 0, NoToken, inflight[p].id, [calls |-> calls])

\* The request arrives and is authenticated: request.user is the caller.
Delete(p, caller, id) ==
    /\ inflight[p] = Idle
    /\ inflight' = [inflight EXCEPT ![p] =
          [pc |-> "first_get_object", id |-> id, caller |-> caller,
           calls |-> <<>>]]
    /\ resp' = Response("delete", 0, NoToken, id, [calls |-> <<>>])
    /\ UNCHANGED <<users, profiles, salts, lastid, queue, mailed, bucket,
                   blacklisted, now>>

\* user = self.get_object(), the first one.
DeleteFirstGetObject(p) ==
    /\ inflight[p].pc = "first_get_object"
    /\ LET r == inflight[p]
           status == get_object(r.caller, r.id)
       IN  IF status = HTTP_200_OK
           THEN Proceed(p, "profile", r.calls)
           ELSE Refused(p, status)
    /\ UNCHANGED <<users, profiles, salts, lastid, queue, mailed, bucket,
                   blacklisted, now>>

\* if user.profile.avatar: the Profile row is read now; the view raises
\* when there is none any more.
DeleteProfile(p) ==
    /\ inflight[p].pc = "profile"
    /\ LET r == inflight[p]
       IN  IF r.id \notin DOMAIN profiles
           THEN Refused(p, HTTP_500_INTERNAL_SERVER_ERROR)
           ELSE Proceed(p, IF profiles[r.id].avatar THEN "get_object" ELSE "destroy",
                        r.calls)
    /\ UNCHANGED <<users, profiles, salts, lastid, queue, mailed, bucket,
                   blacklisted, now>>

\* self.get_object() inside the call of line 240, the second one.
DeleteGetObject(p) ==
    /\ inflight[p].pc = "get_object"
    /\ LET r == inflight[p]
           status == get_object(r.caller, r.id)
       IN  IF status = HTTP_200_OK
           THEN Proceed(p, "avatar_name", r.calls)
           ELSE Refused(p, status)
    /\ UNCHANGED <<users, profiles, salts, lastid, queue, mailed, bucket,
                   blacklisted, now>>

\* <user>.profile.avatar.name, the argument of the call of line 240: the
\* Profile row is read again (the view raises when there is none) for the
\* name it holds (the object is stored under a key of its owner; a
\* profile whose avatar is gone by now gives no name).
DeleteAvatarName(p) ==
    /\ inflight[p].pc = "avatar_name"
    /\ LET r == inflight[p]
       IN  IF r.id \notin DOMAIN profiles
           THEN Refused(p, HTTP_500_INTERNAL_SERVER_ERROR)
           ELSE /\ inflight' = [inflight EXCEPT ![p] =
                      [pc |-> "delete_object", id |-> r.id, caller |-> r.caller,
                       calls |-> r.calls,
                       key |-> IF profiles[r.id].avatar THEN r.id ELSE Anonymous]]
                /\ resp' = Response("delete", 0, NoToken, r.id,
                                    [calls |-> r.calls])
    /\ UNCHANGED <<users, profiles, salts, lastid, queue, mailed, bucket,
                   blacklisted, now>>

\* Bucket().delete_object(name): the storage call.
DeleteObject(p) ==
    /\ inflight[p].pc = "delete_object"
    /\ LET r == inflight[p]
       IN  /\ bucket' = bucket \ {r.key}
           /\ inflight' = [inflight EXCEPT ![p] =
                 [pc |-> "destroy", id |-> r.id, caller |-> r.caller,
                  calls |-> Append(r.calls, DeleteObjectCall(r.key))]]
           /\ resp' = Response("delete", 0, NoToken, r.id,
                               [calls |-> Append(r.calls, DeleteObjectCall(r.key))])
    /\ UNCHANGED <<users, profiles, salts, lastid, queue, mailed, blacklisted, now>>

\* super().destroy(): instance = self.get_object(), the third one.
Destroy(p) ==
    /\ inflight[p].pc = "destroy"
    /\ LET r == inflight[p]
           status == get_object(r.caller, r.id)
       IN  IF status = HTTP_200_OK
           THEN Proceed(p, "perform_destroy", r.calls)
           ELSE Refused(p, status)
    /\ UNCHANGED <<users, profiles, salts, lastid, queue, mailed, bucket,
                   blacklisted, now>>

\* perform_destroy(instance): instance.delete(), whatever the row holds by
\* now, with its Profile (cascade), and the 204.
PerformDestroy(p) ==
    /\ inflight[p].pc = "perform_destroy"
    /\ LET r == inflight[p]
       IN  /\ users' = [u \in Existing \ {r.id} |-> users[u]]
           /\ profiles' = [u \in DOMAIN profiles \ {r.id} |-> profiles[u]]
           /\ inflight' = [inflight EXCEPT ![p] = Idle]
           /\ resp' = Response("delete", HTTP_204_NO_CONTENT, NoToken, r.id,
                               [calls |-> Append(r.calls, DeleteRowCall(r.id))])
    /\ UNCHANGED <<salts, lastid, queue, mailed, bucket, blacklisted, now>>

\* ------------------------------------------------------------ environment
\* The task queue runs send_verification_email: the token is signed and
\* mailed.
DeliverMail ==
    /\ queue # <<>>
    /\ mailed' = mailed \cup {generate_token(Head(queue).user_id, Head(queue).purpose)}
    /\ queue' = Tail(queue)
    /\ resp' = Response("deliver", 0, NoToken, Head(queue).user_id, NoPayload)
    /\ UNCHANGED <<users, profiles, salts, lastid, bucket, blacklisted, now, inflight>>

Tick ==
    /\ now < MaxTime
    /\ now' = now + 1
    /\ resp' = Response("tick", 0, NoToken, Anonymous, NoPayload)
    /\ UNCHANGED <<users, profiles, salts, lastid, queue, mailed, bucket,
                   blacklisted, inflight>>

\* ------------------------------------------------------------------ system
Init ==
    /\ users = [u \in {} |-> 0]
    /\ profiles = [u \in {} |-> 0]
    /\ salts = 0
    /\ lastid = 0
    /\ queue = <<>>
    /\ mailed = {}
    /\ bucket = {}
    /\ blacklisted = [j \in Jtis |-> 0]
    /\ now = 0
    /\ inflight = [p \in Procs |-> Idle]
    /\ resp = Response("none", 0, NoToken, Anonymous, NoPayload)

\* Every request of every view, with every input.
Next ==
    \/ \E p \in Procs, caller \in Callers, data \in RegisterPayloads :
          Register(p, caller, data)
    \/ \E p \in Procs : RegisterInsert(p)
    \/ \E p \in Procs : RegisterEmail(p)
    \/ \E p \in Procs, caller \in Callers, token \in UrlTokens :
          Verify(p, caller, token)
    \/ \E p \in Procs : VerifySave(p)
    \/ \E p \in Procs, caller \in Callers, data \in EmailPayloads :
          ResendVerification(p, caller, data)
    \/ \E p \in Procs : ResendEmail(p)
    \/ \E p \in Procs, caller \in Callers, data \in PasswordPayloads :
          ChangePassword(p, caller, data)
    \/ \E p \in Procs : ChangePasswordSave(p)
    \/ \E p \in Procs, token \in UrlTokens, data \in PasswordPayloads :
          SetPassword(p, token, data)
    \/ \E p \in Procs : SetPasswordSave(p)
    \/ \E p \in Procs, data \in EmailPayloads : ResetPassword(p, data)
    \/ \E p \in Procs : ResetEmail(p)
    \/ \E p \in Procs, data \in BlockPayloads : BlockLoad(p, data)
    \/ \E p \in Procs : BlockBlacklist(p)
    \/ \E caller \in Callers, id \in UserIds : Retrieve(caller, id)
    \/ \E p \in Procs, caller \in Callers, id \in UserIds,
            data \in ProfilePayloads \cup AvatarPayloads :
          Patch(p, caller, id, data)
    \/ \E p \in Procs : PatchGetObject(p)
    \/ \E p \in Procs : PatchValidate(p)
    \/ \E p \in Procs : PatchUserSave(p)
    \/ \E p \in Procs : PatchEmail(p)
    \/ \E p \in Procs : PatchSave(p)
    \/ \E p \in Procs, caller \in Callers, id \in UserIds : Delete(p, caller, id)
    \/ \E p \in Procs : DeleteFirstGetObject(p)
    \/ \E p \in Procs : DeleteProfile(p)
    \/ \E p \in Procs : DeleteGetObject(p)
    \/ \E p \in Procs : DeleteAvatarName(p)
    \/ \E p \in Procs : DeleteObject(p)
    \/ \E p \in Procs : Destroy(p)
    \/ \E p \in Procs : PerformDestroy(p)
    \/ DeliverMail
    \/ Tick

Spec == Init /\ [][Next]_vars

\* With two workers interleaving at every database access the whole system
\* is beyond exhaustive search, so each concern is explored in a
\* specification of its own: the views it involves, all their steps
\* interleaved, with the inputs it needs.  Every behaviour of these is a
\* behaviour of Spec.

\* The registrations of one account: its payload, sent once or again, and
\* a payload that is not valid.
FirstAccount ==
    {d \in RegisterPayloads : d.username = "alice" /\ d.email # "b@x.com"}

\* The set-password payloads with one new password, and the one that is
\* not valid.
OnePassword == {d \in PasswordPayloads : d.new_password # "Other456!"}

\* The views that consume a mailed token, for one account: registration,
\* password reset, verification and set-password, against the clock.
NextTokens ==
    \/ \E p \in Procs, caller \in Callers, data \in FirstAccount :
          Register(p, caller, data)
    \/ \E p \in Procs : RegisterInsert(p)
    \/ \E p \in Procs : RegisterEmail(p)
    \/ \E p \in Procs, caller \in Callers, token \in UrlTokens :
          Verify(p, caller, token)
    \/ \E p \in Procs : VerifySave(p)
    \/ \E p \in Procs, data \in EmailPayloads : ResetPassword(p, data)
    \/ \E p \in Procs : ResetEmail(p)
    \/ \E p \in Procs, token \in UrlTokens, data \in OnePassword :
          SetPassword(p, token, data)
    \/ \E p \in Procs : SetPasswordSave(p)
    \/ DeliverMail
    \/ Tick

SpecTokens == Init /\ [][NextTokens]_vars

\* Session token revocation on its own: two clients' block-token requests,
\* interleaved at their database accesses, against the clock.
NextRevocation ==
    \/ \E p \in Procs, data \in BlockPayloads : BlockLoad(p, data)
    \/ \E p \in Procs : BlockBlacklist(p)
    \/ Tick

SpecRevocation == Init /\ [][NextRevocation]_vars

\* The authenticated views on one account: change-password and the
\* profile PATCH, among registration and verification.
NextAccount ==
    \/ \E p \in Procs, caller \in Callers, data \in FirstAccount :
          Register(p, caller, data)
    \/ \E p \in Procs : RegisterInsert(p)
    \/ \E p \in Procs : RegisterEmail(p)
    \/ \E p \in Procs, caller \in Callers, token \in mailed :
          Verify(p, caller, token)
    \/ \E p \in Procs : VerifySave(p)
    \/ \E p \in Procs, caller \in Callers, data \in PasswordPayloads :
          ChangePassword(p, caller, data)
    \/ \E p \in Procs : ChangePasswordSave(p)
    \/ \E p \in Procs, caller \in Callers, id \in UserIds, data \in EmailPatches :
          Patch(p, caller, id, data)
    \/ \E p \in Procs : PatchGetObject(p)
    \/ \E p \in Procs : PatchValidate(p)
    \/ \E p \in Procs : PatchUserSave(p)
    \/ \E p \in Procs : PatchEmail(p)
    \/ \E p \in Procs : PatchSave(p)
    \/ DeliverMail

SpecAccount == Init /\ [][NextAccount]_vars

\* The profile endpoint on one account: GET, PATCH and DELETE, avatars
\* included, among registration and verification.
NextProfile ==
    \/ \E p \in Procs, caller \in Callers, data \in FirstAccount :
          Register(p, caller, data)
    \/ \E p \in Procs : RegisterInsert(p)
    \/ \E p \in Procs : RegisterEmail(p)
    \/ \E p \in Procs, caller \in Callers, token \in mailed :
          Verify(p, caller, token)
    \/ \E p \in Procs : VerifySave(p)
    \/ \E caller \in Callers, id \in UserIds : Retrieve(caller, id)
    \/ \E p \in Procs, caller \in Callers, id \in Existing,
            data \in EmailPatches \cup AvatarPayloads :
          Patch(p, caller, id, data)
    \/ \E p \in Procs : PatchGetObject(p)
    \/ \E p \in Procs : PatchValidate(p)
    \/ \E p \in Procs : PatchUserSave(p)
    \/ \E p \in Procs : PatchEmail(p)
    \/ \E p \in Procs : PatchSave(p)
    \/ \E p \in Procs, caller \in Callers, id \in Existing : Delete(p, caller, id)
    \/ \E p \in Procs : DeleteFirstGetObject(p)
    \/ \E p \in Procs : DeleteProfile(p)
    \/ \E p \in Procs : DeleteGetObject(p)
    \/ \E p \in Procs : DeleteAvatarName(p)
    \/ \E p \in Procs : DeleteObject(p)
    \/ \E p \in Procs : Destroy(p)
    \/ \E p \in Procs : PerformDestroy(p)
    \/ DeliverMail

SpecProfile == Init /\ [][NextProfile]_vars

\* The profile PATCH, username and e-mail changes alike, among the
\* registrations and verifications of one account (and of the account that
\* takes its name and address once a PATCH has given them up).
NextPatch ==
    \/ \E p \in Procs, caller \in Callers, data \in FirstAccount :
          Register(p, caller, data)
    \/ \E p \in Procs : RegisterInsert(p)
    \/ \E p \in Procs : RegisterEmail(p)
    \/ \E p \in Procs, caller \in Callers, token \in mailed :
          Verify(p, caller, token)
    \/ \E p \in Procs : VerifySave(p)
    \/ \E p \in Procs, caller \in Callers, id \in Existing, data \in ProfilePayloads :
          Patch(p, caller, id, data)
    \/ \E p \in Procs : PatchGetObject(p)
    \/ \E p \in Procs : PatchValidate(p)
    \/ \E p \in Procs : PatchUserSave(p)
    \/ \E p \in Procs : PatchEmail(p)
    \/ \E p \in Procs : PatchSave(p)
    \/ DeliverMail

SpecPatch == Init /\ [][NextPatch]_vars

\* The requests that send mail, for one account: registration, resend,
\* password reset and the profile PATCH of the e-mail, among verifications.
NextMail ==
    \/ \E p \in Procs, caller \in Callers, data \in FirstAccount :
          Register(p, caller, data)
    \/ \E p \in Procs : RegisterInsert(p)
    \/ \E p \in Procs : RegisterEmail(p)
    \/ \E p \in Procs, caller \in Callers, token \in mailed :
          Verify(p, caller, token)
    \/ \E p \in Procs : VerifySave(p)
    \/ \E p \in Procs, caller \in Callers, data \in EmailPayloads :
          ResendVerification(p, caller, data)
    \/ \E p \in Procs : ResendEmail(p)
    \/ \E p \in Procs, data \in EmailPayloads : ResetPassword(p, data)
    \/ \E p \in Procs : ResetEmail(p)
    \/ \E p \in Procs, caller \in Callers, id \in Existing, data \in EmailPatches :
          Patch(p, caller, id, data)
    \/ \E p \in Procs : PatchGetObject(p)
    \/ \E p \in Procs : PatchValidate(p)
    \/ \E p \in Procs : PatchUserSave(p)
    \/ \E p \in Procs : PatchEmail(p)
    \/ \E p \in Procs : PatchSave(p)
    \/ DeliverMail

SpecMail == Init /\ [][NextMail]_vars

\* ================================================================== claims
TokenViews == {"verify", "set_password"}

\* C1: in Verify and Set-password, whenever the token verifier returns a
\* failure instead of a User (expired, tampered, malformed, or naming no
\* existing user; the request then records no resolved token), the view
\* returns that failure, the User and Profile tables are the same after
\* the request as before it and the request goes no further.  (A request
\* its permission class refuses never reaches the verifier.)
C1_FailedTokenMutatesNothing ==
    [][(/\ resp'.op \in TokenViews
        /\ resp'.tok = NoToken
        /\ resp'.pay # PermissionDenied)
         => /\ users' = users
            /\ profiles' = profiles
            /\ inflight' = inflight
            /\ resp'.status = FailureResponse.status]_vars

\* Verify was refused for a token naming an existing inactive user whose
\* mailed verification token has expired.
C1_Witness ==
    /\ resp.op = "verify"
    /\ resp.status = HTTP_400_BAD_REQUEST
    /\ resp.tok = NoToken
    /\ resp.uid \in Existing
    /\ ~users[resp.uid].is_active
    /\ \E t \in mailed :
         t.uid = resp.uid /\ t.purpose = "verification" /\ t.exp <= now

\* C2: a Verify request with a token the verifier resolves is answered
\* according to the user it names: inactive when the answer is given, the
\* user is active after it and the answer is 200; active already, the
\* answer is 409 and no field of any User has changed.
C2_VerifyActivatesThenConflicts ==
    [][(resp'.op = "verify" /\ resp'.tok # NoToken /\ resp'.status # 0)
         => LET id == resp'.uid
            IN  IF users[id].is_active
                THEN /\ resp'.status = HTTP_409_CONFLICT
                     /\ users' = users
                ELSE /\ resp'.status = HTTP_200_OK
                     /\ users'[id].is_active]_vars

\* The purpose tag the view is meant for.
PurposeOf(op) == IF op = "verify" THEN "verification" ELSE "reset_password"

\* C3: a token is single-use: once a view has accepted a token of the
\* right purpose and acted on it (it saved the User and answered 200), the
\* same token at the same view in the next step neither writes the User
\* again nor is accepted for a save.
C3_TokenSingleUse ==
    [][(/\ resp.op \in TokenViews
        /\ resp.status = HTTP_200_OK
        /\ resp.tok.purpose = PurposeOf(resp.op)
        /\ resp'.op = resp.op
        /\ resp'.tok = resp.tok)
         => /\ users' = users
            /\ resp'.status # 0]_vars

\* C4: right after a profile update has changed a user's e-mail (to an
\* address other than the one it read) and deactivated the account, Verify
\* with a token that was mailed before the change neither sets is_active
\* back to true nor is accepted for the save that does.
C4_OldTokenCannotReactivate ==
    [][(/\ resp.op = "patch"
        /\ resp.status = HTTP_200_OK
        /\ resp.pay.email # Absent
        /\ resp.pay.email # resp.pay.stored
        /\ resp'.op = "verify"
        /\ resp'.tok \in mailed
        /\ resp'.tok.uid = resp.uid)
         => /\ ~users'[resp.uid].is_active
            /\ resp'.status # 0]_vars

\* C5: tokens are scoped to their purpose: Verify with a token whose
\* purpose is not verification, and Set-password with a token whose purpose
\* is not reset_password, never mutate a User.
C5_PurposeScoped ==
    [][(/\ resp'.op \in TokenViews
        /\ resp'.tok # NoToken
        /\ resp'.tok.purpose # PurposeOf(resp'.op))
         => users' = users]_vars

\* C6: a PATCH answered 200 whose payload carries an e-mail other than the
\* one on the instance it read leaves that user, at the end of the request,
\* with is_active = FALSE and the new e-mail, whatever else the payload
\* changes.
C6_EmailChangeDeactivates ==
    [][(/\ resp'.op = "patch"
        /\ resp'.status = HTTP_200_OK
        /\ resp'.pay.email # Absent
        /\ resp'.pay.email # resp'.pay.stored)
         => /\ resp'.uid \in DOMAIN users'
            /\ ~users'[resp'.uid].is_active
            /\ users'[resp'.uid].email = resp'.pay.email]_vars

\* A PATCH that changed e-mail and username together was answered 200 and
\* the user is inactive.
C6_Witness ==
    /\ resp.op = "patch"
    /\ resp.status = HTTP_200_OK
    /\ resp.pay.email # Absent
    /\ resp.pay.username # Absent
    /\ resp.pay.email # resp.pay.stored
    /\ users[resp.uid].email = resp.pay.email
    /\ users[resp.uid].username = resp.pay.username
    /\ ~users[resp.uid].is_active

\* A block-token step that parsed (or refused) a token, as opposed to the
\* step that answers 204.
LoadStep == resp'.op = "block_token" /\ resp'.status # HTTP_204_NO_CONTENT

\* C7: block-token called twice in sequence by one client with the same
\* valid refresh token: the second call is not answered with an error.
C7_BlockTwiceNoError ==
    [][(/\ resp.op = "block_token"
        /\ resp.status = HTTP_204_NO_CONTENT
        /\ LoadStep
        /\ resp'.pay = resp.pay
        /\ resp'.tok = resp.tok
        /\ resp'.tok.exp > now)
         => resp'.status # HTTP_400_BAD_REQUEST]_vars

\* C8: two clients' block-token requests for the same valid refresh token,
\* in any interleaving of their steps: neither is answered with an error
\* and the token has exactly one blacklist row once one has completed.
C8_ConcurrentBlockNoError ==
    [][(/\ resp.op = "block_token"
        /\ resp.status \in {0, HTTP_204_NO_CONTENT}
        /\ resp'.op = "block_token"
        /\ resp'.pay # resp.pay
        /\ resp'.tok = resp.tok
        /\ resp'.tok.exp > now)
         => /\ resp'.status # HTTP_400_BAD_REQUEST
            /\ resp'.status = HTTP_204_NO_CONTENT
                 => blacklisted'[resp'.tok.jti] = 1]_vars

\* C9: a blacklist row is never removed, so a token once blacklisted is
\* refused by RefreshToken() ever after; and a block-token request whose
\* token has a bad signature or has expired is answered 400, blacklists
\* nothing and goes no further.
C9_BlacklistedIsTerminal ==
    [][/\ \A j \in Jtis : blacklisted[j] > 0 => blacklisted'[j] > 0
       /\ (LoadStep /\ resp'.tok # NoToken
             /\ (~resp'.tok.sig \/ resp'.tok.exp <= now))
            => /\ resp'.status = HTTP_400_BAD_REQUEST
               /\ blacklisted' = blacklisted
               /\ inflight' = inflight]_vars

\* A properly signed refresh token that is blacklisted was presented again
\* before its expiry and refused.
C9_Witness ==
    /\ resp.op = "block_token"
    /\ resp.status = HTTP_400_BAD_REQUEST
    /\ resp.tok # NoToken
    /\ resp.tok.sig
    /\ resp.tok.exp > now
    /\ blacklisted[resp.tok.jti] = 1

\* C10: a Register request whose payload is_valid() accepts adds exactly
\* one row, with is_active = FALSE and the e-mail of the payload, leaves
\* the others alone (its call of register() does, and does not raise) and
\* then returns 201 without touching the table; one whose payload
\* is_valid() refuses returns 400, adds no row and enqueues no e-mail.
C10_RegisterNeverActivates ==
    [][/\ (/\ resp'.op = "register"
           /\ resp'.status # 0
           /\ resp'.pay # PermissionDenied
           /\ resp'.pay \notin RegisterPayloads)
          => /\ resp'.status = HTTP_400_BAD_REQUEST
             /\ users' = users
             /\ queue' = queue
       /\ \A p \in Procs :
            LET r == inflight[p]
            IN  /\ (r.pc = "register" /\ inflight'[p] # r)
                   => /\ resp'.status # HTTP_500_INTERNAL_SERVER_ERROR
                      /\ \E id \in UserIds \ DOMAIN users :
                           /\ DOMAIN users' = DOMAIN users \cup {id}
                           /\ ~users'[id].is_active
                           /\ users'[id].email = r.vd.email
                      /\ \A u \in DOMAIN users : users'[u] = users[u]
                /\ (r.pc = "register_email" /\ inflight'[p] # r)
                   => /\ resp'.status = HTTP_201_CREATED
                      /\ users' = users]_vars

\* C11: an e-mail task is enqueued only after the write it announces has
\* been committed (in Register, Resend-verification, Reset-password and a
\* profile e-mail change, the row of the task's user is in the table with
\* the address the task is sent to when the task enters the queue), and a
\* request that fails has enqueued no task.
C11_EmailOnlyAfterCommit ==
    [][/\ Len(queue') > Len(queue)
            => LET task == queue'[Len(queue')]
               IN  /\ task.user_id \in DOMAIN users'
                   /\ users'[task.user_id].email = task.email
       /\ \A p \in Procs :
            (/\ inflight[p].pc = "serializer_save"
             /\ inflight'[p] = Idle
             /\ resp'.status = HTTP_500_INTERNAL_SERVER_ERROR)
            => inflight[p].tasks = <<>>]_vars

\* C12: a DELETE that removes the row of a profile with an avatar has
\* issued exactly one delete_object call, for that avatar, before the row
\* is deleted, and the object is gone; one that removes a profile without
\* an avatar has issued none.
C12_AvatarPurgedBeforeRow ==
    [][(/\ resp'.op = "delete"
        /\ resp'.status = HTTP_204_NO_CONTENT
        /\ resp'.uid \in DOMAIN profiles)
         => LET calls == resp'.pay.calls
                id == resp'.uid
                purges == {i \in DOMAIN calls : calls[i].call = "delete_object"}
                deletes == {i \in DOMAIN calls : calls[i].call = "delete"}
            IN  /\ id \notin DOMAIN users'
                /\ Cardinality(deletes) = 1
                /\ Cardinality(purges) = IF profiles[id].avatar THEN 1 ELSE 0
                /\ \A i \in purges :
                     /\ calls[i].key = id
                     /\ \A j \in deletes : i < j
                /\ id \notin bucket']_vars

\* C13: a reset-password request with a valid payload looks the e-mail up
\* once: when no User has it the request is answered 404, enqueues nothing
\* and goes no further; when one has, the request goes on to hand over
\* exactly one task, for that User and address and with purpose
\* reset_password, and is answered 202.  No step of it changes a User.
C13_ResetPasswordLookup ==
    [][/\ (/\ resp'.op = "reset_password"
           /\ resp'.pay # NoPayload
           /\ \A p \in Procs : inflight[p].pc = "reset_email"
                                  => inflight'[p] = inflight[p])
          => /\ users' = users
             /\ queue' = queue
             /\ IF \A u \in DOMAIN users : users[u].email # resp'.pay.email
                THEN /\ resp'.status = HTTP_404_NOT_FOUND
                     /\ inflight' = inflight
                ELSE /\ resp'.status = 0
                     /\ \E p \in Procs, u \in DOMAIN users :
                          /\ users[u].email = resp'.pay.email
                          /\ inflight[p] = Idle
                          /\ inflight'[p].pc = "reset_email"
                          /\ inflight'[p].tasks =
                               <<[email |-> resp'.pay.email, user_id |-> u,
                                  purpose |-> "reset_password"]>>
       /\ \A p \in Procs :
            (inflight[p].pc = "reset_email" /\ inflight'[p] # inflight[p])
            => /\ resp'.op = "reset_password"
               /\ resp'.status = HTTP_202_ACCEPTED
               /\ users' = users
               /\ Len(inflight[p].tasks) = 1
               /\ queue' = Append(queue, inflight[p].tasks[1])]_vars

\* A reset was requested for an address no User has while another User
\* exists: 404, and the mail queue holds no reset task.
C13_Witness ==
    /\ resp.op = "reset_password"
    /\ resp.status = HTTP_404_NOT_FOUND
    /\ Existing # {}
    /\ \A u \in Existing : users[u].email # resp.pay.email
    /\ \A i \in DOMAIN queue : queue[i].purpose # "reset_password"

\* C14: while a User has is_active = FALSE, no Change-password, profile
\* PATCH or profile DELETE request changes or removes that User's row: a
\* step of such a request that holds the user as it read it, active, finds
\* the row inactive by now and leaves the table alone.  (The second save of
\* an e-mail change, which follows its own deactivation, is not counted.)
C14_InactiveUserProtected ==
    [][\A p \in Procs :
         (/\ inflight[p].pc \in {"change_password_save", "user_save",
                                 "serializer_save", "perform_destroy"}
          /\ inflight'[p] # inflight[p]
          /\ "user" \in DOMAIN inflight[p] => inflight[p].user.is_active
          /\ inflight[p].id \in DOMAIN users
          /\ ~users[inflight[p].id].is_active)
         => users' = users]_vars

\* C15: in a profile update that changes the e-mail the save of the record
\* and the deactivation happen together: in no reachable state, while the
\* update is in flight, after it has failed or after it has succeeded, is
\* the user deactivated with the old e-mail still stored, or stored with
\* the new e-mail and still active.
C15_SaveAndDeactivationTogether ==
    LET Together(id, email) ==
          id \in Existing
          => (~users[id].is_active <=> users[id].email = email)
    IN  /\ \A p \in Procs :
             (/\ inflight[p].pc \in {"user_save", "patch_email", "serializer_save"}
              /\ inflight[p].data.email # Absent
              /\ inflight[p].data.email # inflight[p].user.email)
             => Together(inflight[p].id, inflight[p].data.email)
        /\ (/\ resp.op = "patch"
            /\ resp.status \in {HTTP_200_OK, HTTP_500_INTERNAL_SERVER_ERROR}
            /\ resp.pay.email # Absent)
             => Together(resp.uid, resp.pay.email)

\* C16: Set-password checks the token before the payload: with a token the
\* verifier refuses it returns the verifier's failure Response, whether the
\* payload is valid or not, and saves nothing; with a token the verifier
\* resolves and an invalid payload it returns 400 with the validation
\* errors, leaves the User's password as it was and goes no further; only
\* a request with a resolved token and a valid payload goes on to save.
C16_TokenBeforePayload ==
    [][resp'.op = "set_password"
         => IF resp'.tok = NoToken
            THEN /\ resp'.pay = FailureResponse
                 /\ resp'.status = FailureResponse.status
                 /\ users' = users
                 /\ inflight' = inflight
            ELSE IF resp'.status \in {0, HTTP_200_OK, HTTP_500_INTERNAL_SERVER_ERROR}
            THEN resp'.pay.wellformed
            ELSE /\ resp'.pay = ErrorsResponse(HTTP_400_BAD_REQUEST)
                 /\ resp'.status = HTTP_400_BAD_REQUEST
                 /\ users' = users
                 /\ inflight' = inflight]_vars

\* Set-password was answered with the validation errors for a mailed,
\* unexpired reset token: the user keeps the password of the registration.
C16_Witness ==
    /\ resp.op = "set_password"
    /\ resp.pay = ErrorsResponse(HTTP_400_BAD_REQUEST)
    /\ resp.tok \in mailed
    /\ resp.tok.purpose = "reset_password"
    /\ resp.tok.exp > now
    /\ users[resp.tok.uid].password[3] = "Secret123!"

\* C17: the only step that takes a User from is_active = FALSE to
\* is_active = TRUE is the save of a Verify request whose token the
\* verifier resolved to that User; no step of a Register,
\* Resend-verification, Change-password, Set-password, Reset-password or
\* profile PATCH request does.
C17_OnlyVerifyActivates ==
    [][\A u \in DOMAIN users \cap DOMAIN users' :
         (~users[u].is_active /\ users'[u].is_active)
         => /\ resp'.op = "verify"
            /\ resp'.status = HTTP_200_OK
            /\ resp'.tok # NoToken
            /\ resp'.tok.uid = u]_vars

\* The requests of the profile endpoint.
ProfileViews == {"retrieve", "patch", "delete"}

\* C18: the profile endpoint resolves only active users: every GET, PATCH
\* and DELETE on the profile of a user who is not active that is answered
\* (so every one answered between the e-mail change that deactivated the
\* user and the next successful Verify; the answer of that e-mail change
\* itself is not counted) is answered 404 and has changed neither the User
\* table, nor the mail queue, nor the bucket.
C18_InactiveProfileNotFound ==
    [][(/\ resp'.op \in ProfileViews
        /\ resp'.status # 0
        /\ resp'.uid \in DOMAIN users
        /\ ~users[resp'.uid].is_active
        /\ ~(resp'.op = "patch" /\ resp'.pay # NoPayload
               /\ resp'.pay.email # Absent))
         => /\ resp'.status = HTTP_404_NOT_FOUND
            /\ users' = users
            /\ queue' = queue
            /\ bucket' = bucket]_vars

\* C19: a profile PATCH whose validated payload has an e-mail field, also
\* when the address is the one stored, takes the path that saves the user
\* with is_active = FALSE (line 227) and then hands over exactly one
\* verification task for the supplied address (line 228), and when it is
\* answered 200 the user is inactive; a PATCH without an e-mail field
\* takes neither step, has handed over nothing when it answers and,
\* answered 200, leaves the user active.
C19_DeactivatesIffEmailField ==
    [][\A p \in Procs :
         LET r == inflight[p]
             task == [email |-> r.data.email, user_id |-> r.id,
                      purpose |-> "verification"]
         IN  /\ (r.pc = "is_valid" /\ inflight'[p] \notin {r, Idle})
                => /\ queue' = queue
                   /\ users' = users
                   /\ inflight'[p].tasks = <<>>
                   /\ inflight'[p].pc = IF r.data.email # Absent
                                        THEN "user_save"
                                        ELSE "serializer_save"
             /\ (r.pc = "user_save" /\ inflight'[p] # r)
                => /\ r.data.email # Absent
                   /\ queue' = queue
                   /\ IF resp'.status = HTTP_500_INTERNAL_SERVER_ERROR
                      THEN users' = users /\ inflight'[p] = Idle
                      ELSE /\ ~users'[r.id].is_active
                           /\ inflight'[p].pc = "patch_email"
             /\ (r.pc = "patch_email" /\ inflight'[p] # r)
                => /\ users' = users
                   /\ queue' = Append(queue, task)
                   /\ inflight'[p].pc = "serializer_save"
                   /\ inflight'[p].tasks = <<task>>
             /\ (r.pc = "serializer_save" /\ inflight'[p] # r)
                => /\ queue' = queue
                   /\ r.tasks = IF r.data.email # Absent THEN <<task>> ELSE <<>>
                   /\ resp'.status = HTTP_200_OK
                        => (users'[r.id].is_active <=> r.data.email = Absent)]_vars

\* A PATCH that supplied the address the user already had was answered
\* 200: the address is unchanged, the user is inactive and a verification
\* task for that address has been handed over.
C19_Witness ==
    /\ resp.op = "patch"
    /\ resp.status = HTTP_200_OK
    /\ resp.pay.email # Absent
    /\ resp.pay.email = resp.pay.stored
    /\ users[resp.uid].email = resp.pay.stored
    /\ ~users[resp.uid].is_active
    /\ \E i \in DOMAIN queue :
         queue[i] = EmailTask(resp.pay.email, resp.uid, "verification")

====
